---------------------------- MODULE Spec2Model ----------------------------
(***************************************************************************)
(* Model of WQUcapstoneCode/technical/technical.py: the technical-analysis *)
(* indicator classes (wr, EMA, BollingerBands, CCI, Stochastic, Ichimoku,  *)
(* RSI), the shared _Indicator._switch side assignment and __call__.       *)
(*                                                                         *)
(* Numbers.  The columns that come out of Series.ewm (EMA fast and slow,   *)
(* the RSI column and what it is computed from) are IEEE 754 binary64      *)
(* values, computed operation by operation with round-to-nearest-even, so  *)
(* that a comparison with a threshold sees the rounded value the program   *)
(* sees.  The other columns are exact extended rationals [num, den] in     *)
(* lowest terms with den >= 0:  0/0 is NaN, 1/0 is +inf and -1/0 is -inf,  *)
(* so that the divisions by zero the code performs produce what numpy      *)
(* produces.  A value that involves a standard deviation is a quadratic    *)
(* surd  base + coef * sqrt(rad)  with rational parts.                     *)
(* A series is a function over the positions 1..n of the input series      *)
(* (position t is the t-th timestamp of the index).                        *)
(***************************************************************************)
EXTENDS Integers, Sequences, FiniteSets, TLC

VARIABLES
    close,        \* the input price series handed to the constructor
    kind,         \* class of the constructed object, "none" before construction
    params,       \* the numeric arguments the constructor was called with
    data,         \* self.data : column name -> series
    switch_up,    \* self.switch_up   : sequence of [idx, val], in index order
    switch_down,  \* self.switch_down : sequence of [idx, val], in index order
    raised,       \* TRUE when the constructor raised instead of returning
    ret,          \* what the most recent __call__ returned
    ncalls        \* number of __call__ invocations so far

vars == <<close, kind, params, data, switch_up, switch_down, raised, ret, ncalls>>

---------------------------------------------------------------------------
(* Bounds of the model *)

MaxLen == 4
MaxPrice == 3
MaxWindow == 3
MaxCom == 2
MaxCalls == 2
WrMaxLen == 4
WrMaxPrice == 6
RsiMaxLen == 5
RsiMaxPrice == 3

(* Program constants *)

WrUpper == 80
WrLower == 20
StochUpper == 80
StochLower == 20
RsiUpper == 70
RsiLower == 30
ChikouShift == 26

(* IEEE 754 binary64 and the limb size of the natural numbers that carry
   its significands *)

MantBits == 53
MinExp == -1074
MaxExp == 971
LimbBits == 15
Base == 2 ^ LimbBits

---------------------------------------------------------------------------
(* Extended rational arithmetic (IEEE semantics for NaN and infinities) *)

Abs(n) == IF n < 0 THEN -n ELSE n

Sign(n) == IF n < 0 THEN -1 ELSE IF n > 0 THEN 1 ELSE 0

RECURSIVE GCD(_, _)
GCD(a, b) == IF b = 0 THEN a ELSE GCD(b, a % b)

Norm(n, d) ==
    IF d = 0 THEN [num |-> Sign(n), den |-> 0]
    ELSE LET g == GCD(Abs(n), Abs(d))
             s == Sign(d)
         IN  [num |-> (s * n) \div g, den |-> (s * d) \div g]

Rat(n) == [num |-> n, den |-> 1]

NaN == [num |-> 0, den |-> 0]
Zero == Rat(0)
One == Rat(1)
MinusOne == Rat(-1)

IsNaN(x) == x.num = 0 /\ x.den = 0

Neg(a) == [num |-> -a.num, den |-> a.den]

Add(a, b) ==
    IF IsNaN(a) \/ IsNaN(b) THEN NaN
    ELSE IF a.den = 0 /\ b.den = 0 THEN (IF a.num = b.num THEN a ELSE NaN)
    ELSE Norm(a.num * b.den + b.num * a.den, a.den * b.den)

Sub(a, b) == Add(a, Neg(b))

Mul(a, b) ==
    IF IsNaN(a) \/ IsNaN(b) THEN NaN
    ELSE Norm(a.num * b.num, a.den * b.den)

Div(a, b) ==
    IF IsNaN(a) \/ IsNaN(b) THEN NaN
    ELSE IF b.num < 0 THEN Norm(-(a.num * b.den), -(a.den * b.num))
    ELSE Norm(a.num * b.den, a.den * b.num)

AbsR(a) == [num |-> Abs(a.num), den |-> a.den]

(* a comparison that orders NaN below every number *)
LtNaNLow(a, b) ==
    IF IsNaN(a) THEN ~IsNaN(b)
    ELSE IF IsNaN(b) THEN FALSE
    ELSE IF a.den = 0 /\ b.den = 0 THEN a.num < b.num
    ELSE a.num * b.den < b.num * a.den

(* a < b as numpy evaluates it: False as soon as one side is NaN *)
Lt(a, b) ==
    IF IsNaN(a) \/ IsNaN(b) THEN FALSE
    ELSE IF a.den = 0 /\ b.den = 0 THEN a.num < b.num
    ELSE a.num * b.den < b.num * a.den

Gt(a, b) == Lt(b, a)

---------------------------------------------------------------------------
(* Natural numbers of any size: little-endian sequences of limbs in base
   2^15, without high zero limbs; <<>> is 0. *)

RECURSIVE BStrip(_)
BStrip(a) ==
    IF a = <<>> THEN a
    ELSE IF a[Len(a)] = 0 THEN BStrip(SubSeq(a, 1, Len(a) - 1))
    ELSE a

RECURSIVE BOfNat(_)
BOfNat(n) == IF n = 0 THEN <<>> ELSE <<n % Base>> \o BOfNat(n \div Base)

Limb(a, i) == IF i >= 1 /\ i <= Len(a) THEN a[i] ELSE 0

RECURSIVE BCmpAt(_, _, _)
BCmpAt(a, b, i) ==
    IF i = 0 THEN 0
    ELSE IF a[i] < b[i] THEN -1
    ELSE IF a[i] > b[i] THEN 1
    ELSE BCmpAt(a, b, i - 1)

BCmp(a, b) ==
    IF Len(a) < Len(b) THEN -1
    ELSE IF Len(a) > Len(b) THEN 1
    ELSE BCmpAt(a, b, Len(a))

RECURSIVE BAddAt(_, _, _, _)
BAddAt(a, b, i, c) ==
    IF i > Len(a) /\ i > Len(b) THEN (IF c = 0 THEN <<>> ELSE <<c>>)
    ELSE LET s == Limb(a, i) + Limb(b, i) + c
         IN  <<s % Base>> \o BAddAt(a, b, i + 1, s \div Base)

BAdd(a, b) == BAddAt(a, b, 1, 0)

RECURSIVE BSubAt(_, _, _, _)
BSubAt(a, b, i, c) ==
    IF i > Len(a) THEN <<>>
    ELSE LET s == a[i] - Limb(b, i) - c
         IN  IF s < 0 THEN <<s + Base>> \o BSubAt(a, b, i + 1, 1)
             ELSE <<s>> \o BSubAt(a, b, i + 1, 0)

(* a - b for a >= b *)
BSub(a, b) == BStrip(BSubAt(a, b, 1, 0))

(* one row of the schoolbook product: r + a * k for a of at most four limbs
   and 0 <= k < Base, as five limbs *)
BMulRow(a, k, r) ==
    LET x1 == Limb(a, 1) * k + r[1]
        x2 == Limb(a, 2) * k + r[2] + x1 \div Base
        x3 == Limb(a, 3) * k + r[3] + x2 \div Base
        x4 == Limb(a, 4) * k + r[4] + x3 \div Base
    IN  <<x1 % Base, x2 % Base, x3 % Base, x4 % Base, x4 \div Base>>

(* rows j..4 of the product: lo holds the limbs that are final, r the four
   limbs the next row is added to *)
RECURSIVE BMulAt(_, _, _, _, _)
BMulAt(a, b, j, r, lo) ==
    IF j > 4 THEN BStrip(lo \o r)
    ELSE LET row == BMulRow(a, Limb(b, j), r)
         IN  BMulAt(a, b, j + 1, SubSeq(row, 2, 5), Append(lo, row[1]))

(* a * b for a and b of at most four limbs *)
BMul(a, b) == BMulAt(a, b, 1, <<0, 0, 0, 0>>, <<>>)

RECURSIVE BitLenNat(_)
BitLenNat(n) == IF n = 0 THEN 0 ELSE 1 + BitLenNat(n \div 2)

BBitLen(a) ==
    IF a = <<>> THEN 0 ELSE LimbBits * (Len(a) - 1) + BitLenNat(a[Len(a)])

(* a * 2^n *)
BShl(a, n) ==
    LET w == n \div LimbBits
        p == 2 ^ (n % LimbBits)
    IN  BStrip([i \in 1..(Len(a) + w + 1) |->
                   ((Limb(a, i - w) * p) % Base)
                   + ((Limb(a, i - w - 1) * p) \div Base)] \o <<>>)

(* a \div 2^n *)
BShr(a, n) ==
    LET w == n \div LimbBits
        p == 2 ^ (n % LimbBits)
    IN  IF w >= Len(a) THEN <<>>
        ELSE BStrip([i \in 1..(Len(a) - w) |->
                        (Limb(a, i + w) \div p)
                        + ((Limb(a, i + w + 1) % p) * (Base \div p))] \o <<>>)

(* bit n of a, counted from 0 *)
BBit(a, n) == (Limb(a, n \div LimbBits + 1) \div (2 ^ (n % LimbBits))) % 2 = 1

BOdd(a) == a # <<>> /\ a[1] % 2 = 1

(* some of the n low bits of a is set *)
BLowBits(a, n) ==
    LET w == n \div LimbBits
    IN  \/ \E i \in 1..w : Limb(a, i) # 0
        \/ Limb(a, w + 1) % (2 ^ (n % LimbBits)) # 0

BPad(a) == <<Limb(a, 1), Limb(a, 2), Limb(a, 3), Limb(a, 4)>>

(* Long division by a divisor v of four limbs whose top bit is set.  One
   step brings down a zero limb: the quotient limb of  r * Base  by v is
   estimated from the two top limbs of r, its product with v is taken off,
   and the estimate is lowered while the difference is negative. *)
BMulSub(r, v, q) ==
    LET x1 == 0 - q * v[1]
        x2 == r[1] - q * v[2] + x1 \div Base
        x3 == r[2] - q * v[3] + x2 \div Base
        x4 == r[3] - q * v[4] + x3 \div Base
    IN  [l |-> <<x1 % Base, x2 % Base, x3 % Base, x4 % Base>>,
         top |-> r[4] + x4 \div Base]

BAddBack(d, v) ==
    LET y1 == d.l[1] + v[1]
        y2 == d.l[2] + v[2] + y1 \div Base
        y3 == d.l[3] + v[3] + y2 \div Base
        y4 == d.l[4] + v[4] + y3 \div Base
    IN  [l |-> <<y1 % Base, y2 % Base, y3 % Base, y4 % Base>>,
         top |-> d.top + y4 \div Base]

RECURSIVE BFit(_, _, _)
BFit(d, v, q) ==
    IF d.top < 0 THEN BFit(BAddBack(d, v), v, q - 1) ELSE [q |-> q, r |-> d.l]

BQuotLimb(r, v) ==
    LET e  == (r[4] * Base + r[3]) \div v[4]
        q0 == IF e > Base - 1 THEN Base - 1 ELSE e
    IN  BFit(BMulSub(r, v, q0), v, q0)

(* k more quotient limbs of the remainder r, in front of the limbs q *)
RECURSIVE BDivAt(_, _, _, _)
BDivAt(r, v, k, q) ==
    IF k = 0 THEN [q |-> BStrip(q), inexact |-> r # <<0, 0, 0, 0>>]
    ELSE LET s == BQuotLimb(r, v)
         IN  BDivAt(s.r, v, k - 1, <<s.q>> \o q)

(* the quotient of  u * Base^4  by v and whether the division left a
   remainder, for u and v of four limbs with the top bit set *)
BDivMod(u, v) ==
    LET ge == BCmp(u, v) >= 0
    IN  BDivAt(IF ge THEN BPad(BSub(u, v)) ELSE u, v, 4,
               <<IF ge THEN 1 ELSE 0>>)

---------------------------------------------------------------------------
(* IEEE 754 binary64.  A double is  s * m * 2^e  with a 53-bit m (fewer
   bits only at e = -1074), or a signed zero, a signed infinity, or NaN. *)

FNaN == [c |-> "nan", s |-> 1, e |-> 0, m |-> <<>>]
FInf(s) == [c |-> "inf", s |-> s, e |-> 0, m |-> <<>>]
FZero(s) == [c |-> "zero", s |-> s, e |-> 0, m |-> <<>>]

FIsNaN(x) == x.c = "nan"

Max2(a, b) == IF a > b THEN a ELSE b

(* s * m * 2^e  for m of at most 53 bits: infinite beyond the largest
   double *)
FFinite(s, e, m) ==
    IF e > MaxExp THEN FInf(s) ELSE [c |-> "num", s |-> s, e |-> e, m |-> m]

(* s * m * 2^e  for m of at most 54 bits, the 54th only in  m = 2^53 *)
FPack(s, e, m) ==
    IF m = <<>> THEN FZero(s)
    ELSE IF BBitLen(m) > MantBits THEN FFinite(s, e + 1, BShr(m, 1))
    ELSE FFinite(s, e, m)

(* round-to-nearest-even of a quotient q whose remainder is a half (half)
   plus something smaller (rest) *)
FRoundUp(s, e, q, half, rest) ==
    FPack(s, e, IF half /\ (rest \/ BOdd(q)) THEN BAdd(q, <<1>>) ELSE q)

(* x brought to 53 bits, or to the exponent -1074, by dropping sh bits *)
FRoundAt(s, e, x, sticky, sh) ==
    IF sh <= 0
    THEN [c |-> "num", s |-> s, e |-> e + sh, m |-> BShl(x, -sh)]
    ELSE FRoundUp(s, e + sh, BShr(x, sh), BBit(x, sh - 1),
                  sticky \/ BLowBits(x, sh - 1))

(* round-to-nearest-even of  s * (x + f) * 2^e,  0 < f < 1 when sticky and
   f = 0 otherwise *)
FRound(s, e, x, sticky) ==
    IF x = <<>> THEN FZero(s)
    ELSE FRoundAt(s, e, x, sticky, Max2(BBitLen(x) - MantBits, MinExp - e))

FOfInt(n) ==
    IF n = 0 THEN FZero(1)
    ELSE FRound(IF n < 0 THEN -1 ELSE 1, 0, BOfNat(IF n < 0 THEN -n ELSE n), FALSE)

FNeg(a) == IF FIsNaN(a) THEN a ELSE [a EXCEPT !.s = -a.s]

FAbs(a) == IF FIsNaN(a) THEN a ELSE [a EXCEPT !.s = 1]

FMul(a, b) ==
    IF FIsNaN(a) \/ FIsNaN(b) THEN FNaN
    ELSE IF a.c = "inf" \/ b.c = "inf"
         THEN (IF a.c = "zero" \/ b.c = "zero" THEN FNaN ELSE FInf(a.s * b.s))
    ELSE IF a.c = "zero" \/ b.c = "zero" THEN FZero(a.s * b.s)
    ELSE FRound(a.s * b.s, a.e + b.e, BMul(a.m, b.m), FALSE)

FDivRound(s, e, d) == FRound(s, e, d.q, d.inexact)

FDiv(a, b) ==
    IF FIsNaN(a) \/ FIsNaN(b) THEN FNaN
    ELSE IF a.c = "inf" THEN (IF b.c = "inf" THEN FNaN ELSE FInf(a.s * b.s))
    ELSE IF b.c = "inf" THEN FZero(a.s * b.s)
    ELSE IF b.c = "zero" THEN (IF a.c = "zero" THEN FNaN ELSE FInf(a.s * b.s))
    ELSE IF a.c = "zero" THEN FZero(a.s * b.s)
    ELSE LET na == 4 * LimbBits - BBitLen(a.m)
             nb == 4 * LimbBits - BBitLen(b.m)
         IN  FDivRound(a.s * b.s, (a.e - na) - (b.e - nb) - 4 * LimbBits,
                       BDivMod(BShl(a.m, na), BShl(b.m, nb)))

(* the size of  sa * xa + sb * (xb + f),  0 < f < 1 when lost and f = 0
   otherwise, without f; with lost, xa > xb *)
FAddMag(sa, sb, xa, xb, lost) ==
    IF sa = sb THEN BAdd(xa, xb)
    ELSE IF BCmp(xa, xb) < 0 THEN BSub(xb, xa)
    ELSE IF lost THEN BSub(BSub(xa, xb), <<1>>)
    ELSE BSub(xa, xb)

(* (sa * xa + sb * (xb + f)) * 2^e  rounded; +0 when the two cancel *)
FAddSigned(sa, sb, e, xa, xb, lost) ==
    IF sa # sb /\ ~lost /\ BCmp(xa, xb) = 0 THEN FZero(1)
    ELSE FRound(IF sa = sb \/ BCmp(xa, xb) >= 0 THEN sa ELSE sb, e,
                FAddMag(sa, sb, xa, xb, lost), lost)

(* the sum of two numbers, the first with the larger exponent.  Exponents
   at most three apart: the first significand is moved up to the exponent of
   the second and the sum is exact.  Further apart: the first significand
   gets three more bits, the second is moved down to them, and what falls
   off its low end is remembered. *)
FAddOrdered(a, b) ==
    LET d == a.e - b.e
    IN  IF d <= 3
        THEN FAddSigned(a.s, b.s, b.e, BShl(a.m, d), b.m, FALSE)
        ELSE FAddSigned(a.s, b.s, a.e - 3, BShl(a.m, 3), BShr(b.m, d - 3),
                        BLowBits(b.m, d - 3))

FAdd(a, b) ==
    IF FIsNaN(a) \/ FIsNaN(b) THEN FNaN
    ELSE IF a.c = "inf" THEN (IF b.c = "inf" /\ b.s # a.s THEN FNaN ELSE a)
    ELSE IF b.c = "inf" THEN b
    ELSE IF a.c = "zero" THEN (IF b.c = "zero" /\ a.s # b.s THEN FZero(1) ELSE b)
    ELSE IF b.c = "zero" THEN a
    ELSE FAddOrdered(IF a.e >= b.e THEN a ELSE b, IF a.e >= b.e THEN b ELSE a)

FSub(a, b) == FAdd(a, FNeg(b))

(* -1, 0, 1 as |a| <, =, > |b|, neither NaN *)
FCmpAbs(a, b) ==
    LET rank(x) == IF x.c = "zero" THEN 0 ELSE IF x.c = "num" THEN 1 ELSE 2
    IN  IF rank(a) # rank(b) THEN (IF rank(a) < rank(b) THEN -1 ELSE 1)
        ELSE IF a.c # "num" THEN 0
        ELSE IF a.e # b.e THEN (IF a.e < b.e THEN -1 ELSE 1)
        ELSE BCmp(a.m, b.m)

(* a < b, False as soon as one side is NaN *)
FLt(a, b) ==
    IF FIsNaN(a) \/ FIsNaN(b) THEN FALSE
    ELSE IF a.c = "zero" /\ b.c = "zero" THEN FALSE
    ELSE IF a.c = "zero" THEN b.s = 1
    ELSE IF b.c = "zero" THEN a.s = -1
    ELSE IF a.s # b.s THEN a.s < b.s
    ELSE IF a.s = 1 THEN FCmpAbs(a, b) < 0
    ELSE FCmpAbs(a, b) > 0

FGt(a, b) == FLt(b, a)

(* a == b as numpy evaluates it *)
FEq(a, b) ==
    /\ ~FIsNaN(a) /\ ~FIsNaN(b)
    /\ ~FLt(a, b) /\ ~FLt(b, a)

---------------------------------------------------------------------------
(* Series primitives of pandas *)

Idx(s) == DOMAIN s

(* The series as a tuple: every row is computed once *)
Series(f) == f \o <<>>

(* Statements run in order: x is computed in full before y is looked at *)
Then(x, y) == IF x = x THEN y ELSE y

SetMax(S) == CHOOSE x \in S : \A y \in S : y <= x
SetMin(S) == CHOOSE x \in S : \A y \in S : x <= y

RECURSIVE SumR(_, _, _)
SumR(s, lo, hi) == IF lo > hi THEN Zero ELSE Add(s[lo], SumR(s, lo + 1, hi))

(* Series.shift(k): the value k positions earlier, NaN in the first k rows *)
Shift(s, k) == Series([t \in Idx(s) |-> IF t - k >= 1 THEN s[t - k] ELSE NaN])

(* Series.rolling(window).max() / .min() on a series of integers,
   min_periods = window: NaN until a full window is available *)
RollingMax(px, window) ==
    Series([t \in Idx(px) |->
        IF t < window THEN NaN
        ELSE Rat(SetMax({px[i] : i \in (t - window + 1)..t}))])

RollingMin(px, window) ==
    Series([t \in Idx(px) |->
        IF t < window THEN NaN
        ELSE Rat(SetMin({px[i] : i \in (t - window + 1)..t}))])

(* Series.rolling(window).mean(): NaN unless the window holds `window`
   non-NaN observations *)
RollingMean(s, window) ==
    Series([t \in Idx(s) |->
        IF t < window THEN NaN
        ELSE IF \E i \in (t - window + 1)..t : IsNaN(s[i]) THEN NaN
        ELSE Div(SumR(s, t - window + 1, t), Rat(window))])

ToRat(px) == Series([t \in Idx(px) |-> Rat(px[t])])

(* boolean-mask selection  series[mask] : the entries where mask holds,
   in index order *)
RECURSIVE Select(_, _, _)
Select(s, mask, t) ==
    IF t \notin Idx(s) THEN <<>>
    ELSE IF mask[t] THEN <<[idx |-> t, val |-> s[t]]>> \o Select(s, mask, t + 1)
    ELSE Select(s, mask, t + 1)

IdxOf(ev) == {ev[i].idx : i \in DOMAIN ev}

---------------------------------------------------------------------------
(* _Indicator._switch *)

(* pd.Series(c, index = ev.index) *)
ConstSeries(ev, c) == [i \in DOMAIN ev |-> [idx |-> ev[i].idx, val |-> c]]

(* Series.ffill() *)
RECURSIVE FFillAt(_, _)
FFillAt(s, t) ==
    IF ~IsNaN(s[t]) THEN s[t]
    ELSE IF t = 1 THEN NaN
    ELSE FFillAt(s, t - 1)

(* a side assignment that forgets the forward fill *)
FFill_nocarry(s) == s

FFill(s) == Series([t \in Idx(s) |-> FFillAt(s, t)])

(* data['side'] = series : alignment of the series on the table's index;
   positions the series does not label become NaN *)
Align(ev, n) ==
    [t \in 1..n |->
        IF \E i \in DOMAIN ev : ev[i].idx = t
        THEN ev[CHOOSE i \in DOMAIN ev : ev[i].idx = t].val
        ELSE NaN]

HasDuplicates(ev) ==
    \E i, j \in DOMAIN ev : i # j /\ ev[i].idx = ev[j].idx

(* _switch: the two crossing series are stored, +1 / -1 series are built on
   their indexes, concatenated, aligned on the table and forward-filled.
   Aligning a series whose index has a duplicate label raises. *)
Indicator_switch(tbl, up, down) ==
    LET both == ConstSeries(up, One) \o ConstSeries(down, MinusOne)
        n    == Cardinality(Idx(tbl["price"]))
    IN  IF HasDuplicates(both)
        THEN [data |-> tbl, switch_up |-> up, switch_down |-> down,
              raised |-> TRUE]
        ELSE [data |-> tbl @@ ("side" :> FFill(Align(both, n))),
              switch_up |-> up, switch_down |-> down, raised |-> FALSE]

---------------------------------------------------------------------------
(* class wr *)

(* down-cross with the second comparison turned round *)
wr_get_down_cross_lt(df) ==
    LET prev  == Shift(df["wr"], 1)
        crit1 == Series([t \in Idx(prev) |-> Lt(prev[t], Rat(WrUpper))])
        crit2 == Series([t \in Idx(prev) |-> Lt(df["wr"][t], Rat(WrUpper))])
    IN  Select(df["price"], Series([t \in Idx(prev) |-> crit1[t] /\ crit2[t]]), 1)

wr_get_down_cross(df) ==
    LET prev  == Shift(df["wr"], 1)
        crit1 == Series([t \in Idx(prev) |-> Lt(prev[t], Rat(WrUpper))])
        crit2 == Series([t \in Idx(prev) |-> Gt(df["wr"][t], Rat(WrUpper))])
    IN  Select(df["price"], Series([t \in Idx(prev) |-> crit1[t] /\ crit2[t]]), 1)

(* up-cross with  wr <= 20  in place of  wr < 20 *)
wr_get_up_cross_le(df) ==
    LET prev  == Shift(df["wr"], 1)
        crit1 == Series([t \in Idx(prev) |-> Gt(prev[t], Rat(WrLower))])
        crit2 == Series([t \in Idx(prev) |-> ~Gt(df["wr"][t], Rat(WrLower))
                                              /\ ~IsNaN(df["wr"][t])])
    IN  Select(df["price"], Series([t \in Idx(prev) |-> crit1[t] /\ crit2[t]]), 1)

wr_get_up_cross(df) ==
    LET prev  == Shift(df["wr"], 1)
        crit1 == Series([t \in Idx(prev) |-> Gt(prev[t], Rat(WrLower))])
        crit2 == Series([t \in Idx(prev) |-> Lt(df["wr"][t], Rat(WrLower))])
    IN  Select(df["price"], Series([t \in Idx(prev) |-> crit1[t] /\ crit2[t]]), 1)

wr_init(px, window) ==
    LET price == ToRat(px)
        low   == RollingMin(px, window)
        high  == RollingMax(px, window)
        wrcol == Series([t \in Idx(px) |->
                    Mul(Rat(100), Div(Sub(high[t], price[t]),
                                      Sub(high[t], low[t])))])
        tbl   == ("price" :> price) @@ ("wr" :> wrcol)
    IN  Indicator_switch(tbl, wr_get_up_cross(tbl), wr_get_down_cross(tbl))

---------------------------------------------------------------------------
(* Series.ewm(...).mean() with adjust=True, ignore_na=False, in binary64.
   pandas carries the running mean `weighted` and the weight `old_wt` of
   what it has seen from row to row.  On every row after a defined mean the
   old weight decays by  old_wt_factor = 1 - alpha;  an observation that
   differs from the mean is blended in and the new weight 1 is added; a NaN
   observation leaves the mean as it is.  While the mean is NaN (before the
   first observation, or after  inf - inf) the next observation restarts
   it. *)

FOne == FOfInt(1)

ToFloat(px) == Series([t \in Idx(px) |-> FOfInt(px[t])])

(* ewm(com): alpha = 1 / (1 + com) *)
AlphaOfCom(com) == FDiv(FOne, FAdd(FOne, com))

(* ewm(span = span): com = (span - 1) / 2 *)
ComOfSpan(span) == FDiv(FOfInt(span - 1), FOfInt(2))

(* old_wt *= old_wt_factor *)
EwmDecay(st, old_wt_factor) ==
    [st EXCEPT !.old_wt = FMul(st.old_wt, old_wt_factor)]

(* if weighted != cur:
       weighted = (old_wt * weighted + new_wt * cur) / (old_wt + new_wt)
   old_wt += new_wt
   with total the sum  old_wt + new_wt  of both statements *)
EwmBlend(st, cur, new_wt, total) ==
    [weighted |-> IF FEq(st.weighted, cur) THEN st.weighted
                  ELSE FDiv(FAdd(FMul(st.old_wt, st.weighted),
                                 FMul(new_wt, cur)),
                            total),
     old_wt   |-> total]

(* a row whose mean so far is defined, after the decay *)
EwmObserve(st, cur, new_wt) ==
    IF FIsNaN(cur) THEN st
    ELSE EwmBlend(st, cur, new_wt, FAdd(st.old_wt, new_wt))

(* one row of the loop on the state st = [weighted, old_wt] *)
EwmRow(st, cur, old_wt_factor, new_wt) ==
    IF ~FIsNaN(st.weighted)
    THEN EwmObserve(EwmDecay(st, old_wt_factor), cur, new_wt)
    ELSE IF ~FIsNaN(cur) THEN [st EXCEPT !.weighted = cur]
    ELSE st

RECURSIVE EwmScan(_, _, _, _)

(* output[t] = weighted, and on to the next row *)
EwmOutput(s, old_wt_factor, t, st) ==
    Then(st, <<st.weighted>> \o EwmScan(s, old_wt_factor, t + 1, st))

EwmScan(s, old_wt_factor, t, st) ==
    IF t \notin Idx(s) THEN <<>>
    ELSE EwmOutput(s, old_wt_factor, t, EwmRow(st, s[t], old_wt_factor, FOne))

EwmMean(s, com) ==
    IF s = <<>> THEN <<>>
    ELSE <<s[1]>> \o EwmScan(s, FSub(FOne, AlphaOfCom(com)), 2,
                             [weighted |-> s[1], old_wt |-> FOne])

---------------------------------------------------------------------------
(* class EMA.  The fast and slow columns are binary64. *)

(* Series.shift(k) of a binary64 column *)
FShift(s, k) == Series([t \in Idx(s) |-> IF t - k >= 1 THEN s[t - k] ELSE FNaN])

EMA_get_up_cross(df) ==
    LET pf    == FShift(df["fast"], 1)
        ps    == FShift(df["slow"], 1)
        crit1 == Series([t \in Idx(pf) |-> FLt(pf[t], ps[t])])
        crit2 == Series([t \in Idx(pf) |-> FGt(df["fast"][t], df["slow"][t])])
    IN  Select(df["fast"], Series([t \in Idx(pf) |-> crit1[t] /\ crit2[t]]), 1)

EMA_get_down_cross(df) ==
    LET pf    == FShift(df["fast"], 1)
        ps    == FShift(df["slow"], 1)
        crit1 == Series([t \in Idx(pf) |-> FGt(pf[t], ps[t])])
        crit2 == Series([t \in Idx(pf) |-> FLt(df["fast"][t], df["slow"][t])])
    IN  Select(df["fast"], Series([t \in Idx(pf) |-> crit1[t] /\ crit2[t]]), 1)

(* self._switch() on the table built by __init__ *)
EMA_switch(tbl) ==
    Then(tbl, Indicator_switch(tbl, EMA_get_up_cross(tbl),
                               EMA_get_down_cross(tbl)))

EMA_init(px, fast_ma, slow_ma) ==
    LET price == ToFloat(px)
    IN  EMA_switch(("price" :> ToRat(px))
                   @@ ("fast" :> EwmMean(price, FOfInt(fast_ma)))
                   @@ ("slow" :> EwmMean(price, FOfInt(slow_ma))))

---------------------------------------------------------------------------
(* class BollingerBands.  A band is the surd  base + coef * sqrt(rad). *)

NaNSurd == [base |-> NaN, coef |-> Zero, rad |-> Zero]

MkSurd(base, coef, rad) ==
    IF IsNaN(base) \/ IsNaN(rad) THEN NaNSurd
    ELSE [base |-> base, coef |-> coef, rad |-> rad]

ShiftSurd(s, k) == Series([t \in Idx(s) |-> IF t - k >= 1 THEN s[t - k] ELSE NaNSurd])

(* sign(x) * x^2 is strictly increasing, so  p - base < coef * sqrt(rad)
   iff  SgnSq(p - base) < sign(coef) * coef^2 * rad *)
SgnSq(x) == Mul(x, AbsR(x))

LtSurd(p, s) ==
    IF IsNaN(p) \/ IsNaN(s.base) THEN FALSE
    ELSE Lt(SgnSq(Sub(p, s.base)), Mul(SgnSq(s.coef), s.rad))

GtSurd(p, s) ==
    IF IsNaN(p) \/ IsNaN(s.base) THEN FALSE
    ELSE Gt(SgnSq(Sub(p, s.base)), Mul(SgnSq(s.coef), s.rad))

(* Series.rolling(window).std(ddof=0) squared: the population variance *)
RollingVar(s, window) ==
    LET sq == Series([t \in Idx(s) |-> Mul(s[t], s[t])])
        m  == RollingMean(s, window)
        m2 == RollingMean(sq, window)
    IN  Series([t \in Idx(s) |-> Sub(m2[t], Mul(m[t], m[t]))])

BollingerBands_calc_bbands(px, window, numsd) ==
    LET price  == ToRat(px)
        avg    == RollingMean(price, window)
        var    == RollingVar(price, window)
        sd     == Series([t \in Idx(px) |-> MkSurd(Zero, One, var[t])])
        upband == Series([t \in Idx(px) |-> MkSurd(avg[t], Rat(numsd), var[t])])
        dnband == Series([t \in Idx(px) |-> MkSurd(avg[t], Rat(-numsd), var[t])])
    IN  ("price" :> price) @@ ("average" :> avg) @@ ("upper_band" :> upband)
        @@ ("lower_band" :> dnband) @@ ("standard_deviation" :> sd)

BollingerBands_get_down_cross(df) ==
    LET pp    == Shift(df["price"], 1)
        pu    == ShiftSurd(df["upper_band"], 1)
        crit1 == Series([t \in Idx(pp) |-> LtSurd(pp[t], pu[t])])
        crit2 == Series([t \in Idx(pp) |-> GtSurd(df["price"][t], df["upper_band"][t])])
    IN  Select(df["price"], Series([t \in Idx(pp) |-> crit1[t] /\ crit2[t]]), 1)

BollingerBands_get_up_cross(df) ==
    LET pp    == Shift(df["price"], 1)
        pl    == ShiftSurd(df["lower_band"], 1)
        crit1 == Series([t \in Idx(pp) |-> GtSurd(pp[t], pl[t])])
        crit2 == Series([t \in Idx(pp) |-> LtSurd(df["price"][t], df["lower_band"][t])])
    IN  Select(df["price"], Series([t \in Idx(pp) |-> crit1[t] /\ crit2[t]]), 1)

BollingerBands_init(px, window, numsd) ==
    LET tbl == BollingerBands_calc_bbands(px, window, numsd)
    IN  Indicator_switch(tbl, BollingerBands_get_up_cross(tbl),
                         BollingerBands_get_down_cross(tbl))

---------------------------------------------------------------------------
(* class CCI: no _switch, no side column, no crossing series *)

CCI_init(px, window) ==
    LET price == ToRat(px)
        MA    == RollingMean(price, window)
        dev   == Series([t \in Idx(px) |-> AbsR(Sub(price[t], MA[t]))])
        MeanDeviation == RollingMean(dev, window)
        cci   == Series([t \in Idx(px) |->
                    Div(Sub(price[t], MA[t]),
                        Mul(Norm(15, 1000), MeanDeviation[t]))])
    IN  [data |-> ("price" :> price) @@ ("CCI" :> cci),
         switch_up |-> <<>>, switch_down |-> <<>>, raised |-> FALSE]

---------------------------------------------------------------------------
(* class Stochastic *)

Stochastic_get_down_cross(df) ==
    LET pk    == Shift(df["%K"], 1)
        pd    == Shift(df["%D"], 1)
        crit1 == Series([t \in Idx(pk) |-> Gt(df["%K"][t], Rat(StochUpper))])
        crit2 == Series([t \in Idx(pk) |-> Gt(pd[t], pk[t])])
        crit3 == Series([t \in Idx(pk) |-> Lt(df["%D"][t], df["%K"][t])])
    IN  Select(df["price"],
               Series([t \in Idx(pk) |-> crit1[t] /\ crit2[t] /\ crit3[t]]), 1)

Stochastic_get_up_cross(df) ==
    LET pk    == Shift(df["%K"], 1)
        pd    == Shift(df["%D"], 1)
        crit1 == Series([t \in Idx(pk) |-> Lt(df["%K"][t], Rat(StochLower))])
        crit2 == Series([t \in Idx(pk) |-> Lt(pd[t], pk[t])])
        crit3 == Series([t \in Idx(pk) |-> Gt(df["%D"][t], df["%K"][t])])
    IN  Select(df["price"],
               Series([t \in Idx(pk) |-> crit1[t] /\ crit2[t] /\ crit3[t]]), 1)

Stochastic_init(px, window, stoch_window) ==
    LET price == ToRat(px)
        low   == RollingMin(px, window)
        high  == RollingMax(px, window)
        k     == Series([t \in Idx(px) |->
                    Mul(Rat(100), Div(Sub(price[t], low[t]),
                                      Sub(high[t], low[t])))])
        tbl   == ("price" :> price) @@ ("%K" :> k)
                 @@ ("%D" :> RollingMean(k, stoch_window))
    IN  Indicator_switch(tbl, Stochastic_get_up_cross(tbl),
                         Stochastic_get_down_cross(tbl))

---------------------------------------------------------------------------
(* class Ichimoku *)

Ichimoku_sen(px, window) ==
    LET period_high == RollingMax(px, window)
        period_low  == RollingMin(px, window)
    IN  Series([t \in Idx(px) |-> Div(Add(period_high[t], period_low[t]), Rat(2))])

Ichimoku_get_up_cross(df) ==
    LET pa    == Shift(df["senkou_span_a"], 1)
        pb    == Shift(df["senkou_span_b"], 1)
        crit1 == Series([t \in Idx(pa) |-> Lt(pa[t], pb[t])])
        crit2 == Series([t \in Idx(pa) |->
                    Gt(df["senkou_span_a"][t], df["senkou_span_b"][t])])
    IN  Select(df["price"], Series([t \in Idx(pa) |-> crit1[t] /\ crit2[t]]), 1)

Ichimoku_get_down_cross(df) ==
    LET pa    == Shift(df["senkou_span_a"], 1)
        pb    == Shift(df["senkou_span_b"], 1)
        crit1 == Series([t \in Idx(pa) |-> Gt(pa[t], pb[t])])
        crit2 == Series([t \in Idx(pa) |->
                    Lt(df["senkou_span_a"][t], df["senkou_span_b"][t])])
    IN  Select(df["price"], Series([t \in Idx(pa) |-> crit1[t] /\ crit2[t]]), 1)

(* the rows  (a & b) | (~a & ~b)  that lines 168-171 set to 0 *)
Ichimoku_mask(df) ==
    LET a == Series([t \in Idx(df["price"]) |->
                Lt(df["senkou_span_a"][t], df["price"][t])])
        b == Series([t \in Idx(df["price"]) |->
                Lt(df["price"][t], df["senkou_span_b"][t])])
    IN  Series([t \in Idx(df["price"]) |-> (a[t] /\ b[t]) \/ (~a[t] /\ ~b[t])])

(* data.loc[mask, 'side'] = 0 *)
SetSide(df, mask) ==
    [df EXCEPT !["side"] =
        Series([t \in Idx(df["price"]) |-> IF mask[t] THEN Zero ELSE df["side"][t]])]

Ichimoku_init(px, tenka_sen_window, kijun_sen_window, senkou_window) ==
    LET price == ToRat(px)
        tenka == Ichimoku_sen(px, tenka_sen_window)
        kijun == Ichimoku_sen(px, kijun_sen_window)
        mid   == Series([t \in Idx(px) |-> Div(Add(tenka[t], kijun[t]), Rat(2))])
        tbl   == ("price" :> price) @@ ("tenka_sen" :> tenka)
                 @@ ("kijun_sen" :> kijun)
                 @@ ("senkou_span_a" :> Shift(mid, kijun_sen_window))
                 @@ ("senkou_span_b" :>
                        Shift(Ichimoku_sen(px, senkou_window), kijun_sen_window))
                 @@ ("chikou_span" :> Shift(price, ChikouShift))
        sw    == Indicator_switch(tbl, Ichimoku_get_up_cross(tbl),
                                  Ichimoku_get_down_cross(tbl))
    IN  IF sw.raised THEN sw
        ELSE [sw EXCEPT !.data = SetSide(sw.data, Ichimoku_mask(sw.data))]

---------------------------------------------------------------------------
(* class RSI.  The RSI column is binary64. *)

FHundred == FOfInt(100)

FRsiUpper == FOfInt(RsiUpper)

FRsiLower == FOfInt(RsiLower)

RSI_get_down_cross(df) ==
    LET prev  == FShift(df["RSI"], 1)
        crit1 == Series([t \in Idx(prev) |-> FLt(prev[t], FRsiUpper)])
        crit2 == Series([t \in Idx(prev) |-> FGt(df["RSI"][t], FRsiUpper)])
    IN  Select(df["price"], Series([t \in Idx(prev) |-> crit1[t] /\ crit2[t]]), 1)

RSI_get_up_cross(df) ==
    LET prev  == FShift(df["RSI"], 1)
        crit1 == Series([t \in Idx(prev) |-> FGt(prev[t], FRsiLower)])
        crit2 == Series([t \in Idx(prev) |-> FLt(df["RSI"][t], FRsiLower)])
    IN  Select(df["price"], Series([t \in Idx(prev) |-> crit1[t] /\ crit2[t]]), 1)

(* the neutral band written with | in place of & *)
RSI_mask_or(df) ==
    Series([t \in Idx(df["price"]) |->
        FGt(df["RSI"][t], FRsiLower) \/ FLt(df["RSI"][t], FRsiUpper)])

(* the rows  (RSI > 30) & (RSI < 70)  that line 211 sets to 0 *)
RSI_mask(df) ==
    Series([t \in Idx(df["price"]) |->
        FGt(df["RSI"][t], FRsiLower) /\ FLt(df["RSI"][t], FRsiUpper)])

(* Series.diff() *)
Diff(s) == LET p == FShift(s, 1) IN Series([t \in Idx(s) |-> FSub(s[t], p[t])])

(* RS with gain and loss exchanged *)
RSI_value_swapped(roll_up, roll_down) ==
    FSub(FHundred, FDiv(FHundred, FAdd(FOne, FDiv(roll_down, roll_up))))

(* RS1 = roll_up1 / roll_down1;  RSI = 100.0 - (100.0 / (1.0 + RS1)) *)
RSI_value(roll_up, roll_down) ==
    FSub(FHundred, FDiv(FHundred, FAdd(FOne, FDiv(roll_up, roll_down))))

(* up[up < 0] = 0 *)
RSI_up(rtn) ==
    Series([t \in Idx(rtn) |->
        IF FLt(rtn[t], FZero(1)) THEN FZero(1) ELSE rtn[t]])

(* down[down > 0] = 0 *)
RSI_down(rtn) ==
    Series([t \in Idx(rtn) |->
        IF FGt(rtn[t], FZero(1)) THEN FZero(1) ELSE rtn[t]])

(* Series.abs() *)
FAbsSeries(s) == Series([t \in Idx(s) |-> FAbs(s[t])])

(* the RSI column from the two rolling means *)
RSI_column(roll_up1, roll_down1) ==
    Then(<<roll_up1, roll_down1>>,
         Series([t \in Idx(roll_up1) |-> RSI_value(roll_up1[t], roll_down1[t])]))

(* lines 198-208 on  rtn = close.diff() *)
RSI_rsi(rtn, window) ==
    Then(rtn, RSI_column(EwmMean(RSI_up(rtn), ComOfSpan(window)),
                         EwmMean(FAbsSeries(RSI_down(rtn)), ComOfSpan(window))))

(* self._switch() on the table built by __init__ *)
RSI_switch(tbl) ==
    Then(tbl, Indicator_switch(tbl, RSI_get_up_cross(tbl),
                               RSI_get_down_cross(tbl)))

(* self.data.loc[(self.data.RSI > 30) & (self.data.RSI < 70), 'side'] = 0 *)
RSI_override(sw) ==
    IF sw.raised THEN sw
    ELSE [sw EXCEPT !.data = SetSide(sw.data, RSI_mask(sw.data))]

RSI_init(px, window) ==
    RSI_override(RSI_switch(("price" :> ToRat(px))
                            @@ ("RSI" :> RSI_rsi(Diff(ToFloat(px)), window))))

---------------------------------------------------------------------------
(* _Indicator.__call__ / CCI.__call__ : return self.data *)

(* a call that hands back a new table holding the price column only *)
Indicator_call_price_only(self_data, args) == [price |-> self_data["price"]]

Indicator_call(self_data, args) == self_data

---------------------------------------------------------------------------
(* State machine *)

Prices == 1..MaxPrice
Windows == 1..MaxWindow
Coms == 1..MaxCom
NumSds == {-1, 1}
CallArgs == {<<>>, <<1>>}

SeriesOf(P, L) == UNION {[1..n -> P] : n \in 1..L}

NoTable == [price |-> <<>>]

InitWith(S) ==
    /\ close \in S
    /\ kind = "none"
    /\ params = <<>>
    /\ data = NoTable
    /\ switch_up = <<>>
    /\ switch_down = <<>>
    /\ raised = FALSE
    /\ ret = NoTable
    /\ ncalls = 0

Init == InitWith(SeriesOf(Prices, MaxLen))

Construct(k, p, obj) ==
    /\ kind = "none"
    /\ kind' = k
    /\ params' = p
    /\ data' = obj.data
    /\ switch_up' = obj.switch_up
    /\ switch_down' = obj.switch_down
    /\ raised' = obj.raised
    /\ UNCHANGED <<close, ret, ncalls>>

New_wr == \E window \in Windows : Construct("wr", <<window>>, wr_init(close, window))

New_EMA ==
    \E fast_ma, slow_ma \in Coms :
        Construct("EMA", <<fast_ma, slow_ma>>, EMA_init(close, fast_ma, slow_ma))

New_BollingerBands ==
    \E window \in Windows, numsd \in NumSds :
        Construct("BollingerBands", <<window, numsd>>,
                  BollingerBands_init(close, window, numsd))

New_CCI == \E window \in Windows : Construct("CCI", <<window>>, CCI_init(close, window))

New_Stochastic ==
    \E window, stoch_window \in Windows :
        Construct("Stochastic", <<window, stoch_window>>,
                  Stochastic_init(close, window, stoch_window))

New_Ichimoku ==
    \E tenka, kijun, senkou \in Windows :
        Construct("Ichimoku", <<tenka, kijun, senkou>>,
                  Ichimoku_init(close, tenka, kijun, senkou))

New_RSI == \E window \in Windows : Construct("RSI", <<window>>, RSI_init(close, window))

Call ==
    /\ kind # "none"
    /\ ~raised
    /\ ncalls < MaxCalls
    /\ \E args \in CallArgs : ret' = Indicator_call(data, args)
    /\ ncalls' = ncalls + 1
    /\ UNCHANGED <<close, kind, params, data, switch_up, switch_down, raised>>

Next ==
    \/ New_wr
    \/ New_EMA
    \/ New_BollingerBands
    \/ New_CCI
    \/ New_Stochastic
    \/ New_Ichimoku
    \/ New_RSI
    \/ Call

Spec == Init /\ [][Next]_vars

(* William %R alone, on a price range wide enough for wr to take the value
   20 exactly (high - low a multiple of 5) *)
InitWr == InitWith(SeriesOf(1..WrMaxPrice, WrMaxLen))

SpecWr == InitWr /\ [][New_wr]_vars

(* RSI alone, on longer series *)
InitRsi == InitWith(SeriesOf(1..RsiMaxPrice, RsiMaxLen))

SpecRsi == InitRsi /\ [][New_RSI]_vars

---------------------------------------------------------------------------
(* Vocabulary of the properties.  Values are compared here by cross
   multiplication on finite values, independently of Lt / Gt above. *)

N == Cardinality(DOMAIN close)

SignalKinds == {"wr", "EMA", "BollingerBands", "Stochastic", "Ichimoku", "RSI"}

PlainKinds == {"wr", "EMA", "BollingerBands", "Stochastic"}

Events == IdxOf(switch_up) \cup IdxOf(switch_down)

Finite(x) == x.den > 0

Below(x, c) == Finite(x) /\ x.num < c * x.den

Above(x, c) == Finite(x) /\ x.num > c * x.den

Equals(x, c) == Finite(x) /\ x.num = c * x.den

Less(x, y) == Finite(x) /\ Finite(y) /\ x.num * y.den < y.num * x.den

RsiAbove(x, c) == FGt(x, c)

RsiBelow(x, c) == FLt(x, c)

RsiEquals(x, c) == x = c

(* sign of the most recent crossing at or before row t, NaN when there is
   none: the left-to-right fold of the two event series *)
LastEventSide(t) ==
    LET E == {e \in Events : e <= t}
    IN  IF E = {} THEN NaN
        ELSE IF SetMax(E) \in IdxOf(switch_up) THEN One ELSE MinusOne

NonDecreasing(px) == \A i \in 2..Cardinality(DOMAIN px) : px[i - 1] <= px[i]

Increasing(px) == \A i \in 2..Cardinality(DOMAIN px) : px[i - 1] < px[i]

(* all prices of the window ending at row t are equal: high == low *)
FlatWindow(t, window) ==
    t >= window /\ \A i, j \in (t - window + 1)..t : close[i] = close[j]

---------------------------------------------------------------------------
(* C1: for each of the six signal-producing classes, after construction the
   side column is NaN at every row strictly before the first row of
   switch_up or switch_down (at every row when there is no crossing). *)
C1_SideUndefinedBeforeFirstEvent ==
    (kind \in SignalKinds /\ ~raised) =>
        \A t \in 1..N : (\A e \in Events : t < e) => IsNaN(data["side"][t])

(* C2: for wr, EMA, BollingerBands and Stochastic the side column is the fold
   of the events: NaN before the first crossing, afterwards +1 when the most
   recent crossing at or before the row is an up-cross and -1 when it is a
   down-cross; side only takes the values -1, +1, NaN and only changes at a
   crossing row. *)
C2_SideIsFoldOfEvents ==
    (kind \in PlainKinds /\ ~raised) =>
        \A t \in 1..N :
            /\ data["side"][t] = LastEventSide(t)
            /\ data["side"][t] \in {One, MinusOne, NaN}
            /\ (t > 1 /\ data["side"][t] # data["side"][t - 1]) => t \in Events

(* C2 witness: a plain indicator whose side is NaN on the first row and is
   carried forward onto a row that is not itself a crossing *)
C2_Witness ==
    /\ kind \in PlainKinds /\ ~raised
    /\ IsNaN(data["side"][1])
    /\ \E t \in 2..N : t \notin Events /\ ~IsNaN(data["side"][t])

(* C3: for each of the six signal-producing classes switch_up and
   switch_down never hold the same row (so _switch never raises on a
   duplicate label). *)
C3_SwitchesDisjoint ==
    (kind \in SignalKinds) =>
        /\ ~raised
        /\ IdxOf(switch_up) \cap IdxOf(switch_down) = {}

(* C3 witness: an indicator with both an up-cross and a down-cross *)
C3_Witness ==
    /\ kind \in SignalKinds
    /\ switch_up # <<>>
    /\ switch_down # <<>>

(* C4: every call of a constructed indicator returns the table computed at
   construction, the same at each call, and changes neither the table nor
   switch_up nor switch_down. *)
C4_CallIdempotent ==
    [][ncalls' # ncalls =>
         /\ ret' = data
         /\ (ncalls > 0 => ret' = ret)
         /\ data' = data
         /\ switch_up' = switch_up
         /\ switch_down' = switch_down
         /\ kind' = kind]_vars

(* C4 witness: an indicator with crossings that was called twice *)
C4_Witness ==
    /\ ncalls >= 2
    /\ ret = data
    /\ Events # {}

(* C5: after construction an Ichimoku row has side 0 exactly when its price
   lies strictly between senkou_span_a and senkou_span_b (either order);
   every other row (price equal to a span, outside the cloud, a span
   undefined) keeps the forward-filled value. *)
C5_IchimokuOverrideExact ==
    (kind = "Ichimoku" /\ ~raised) =>
        \A t \in 1..N :
            LET a == data["senkou_span_a"][t]
                b == data["senkou_span_b"][t]
                p == data["price"][t]
            IN  data["side"][t] =
                    IF (Less(a, p) /\ Less(p, b)) \/ (Less(b, p) /\ Less(p, a))
                    THEN Zero
                    ELSE LastEventSide(t)

(* C6: RSI: at every row at or after a crossing, side is 0 when
   30 < RSI < 70 and is the sign of the most recent crossing otherwise; the
   side of a crossing row itself is never 0. *)
C6_RsiNeutralOverride ==
    (kind = "RSI" /\ ~raised) =>
        \A T \in Events : \A t \in T..N :
            LET r == data["RSI"][t]
            IN  /\ (RsiAbove(r, FRsiLower) /\ RsiBelow(r, FRsiUpper))
                       => data["side"][t] = Zero
                /\ ~(RsiAbove(r, FRsiLower) /\ RsiBelow(r, FRsiUpper))
                       => data["side"][t] = LastEventSide(t)
                /\ data["side"][T] = LastEventSide(T)
                /\ data["side"][T] # Zero

(* C6 witness: a crossing followed by a later row whose RSI is back in the
   neutral band and whose side is 0 *)
C6_Witness ==
    /\ kind = "RSI" /\ ~raised
    /\ \E T \in Events : \E t \in (T + 1)..N :
          /\ RsiAbove(data["RSI"][t], FRsiLower)
          /\ RsiBelow(data["RSI"][t], FRsiUpper)
          /\ data["side"][t] = Zero

(* C7: Stochastic: a row is in switch_up exactly when %K < 20 and %D was
   above %K on the previous row and %D is below %K on this row; it is in
   switch_down exactly when %K > 80 and %D was below %K on the previous row
   and %D is above %K on this row. *)
C7_StochasticCrossAsStated ==
    (kind = "Stochastic" /\ ~raised) =>
        \A t \in 1..N :
            LET k  == data["%K"][t]
                d  == data["%D"][t]
                pk == IF t > 1 THEN data["%K"][t - 1] ELSE NaN
                pd == IF t > 1 THEN data["%D"][t - 1] ELSE NaN
            IN  /\ t \in IdxOf(switch_up) <=>
                      (Below(k, StochLower) /\ Less(pk, pd) /\ Less(d, k))
                /\ t \in IdxOf(switch_down) <=>
                      (Above(k, StochUpper) /\ Less(pd, pk) /\ Less(k, d))

(* C8: William %R: every row whose previous wr is > 20 and whose wr is <= 20
   (20 included) is in switch_up. *)
C8_WrUpCrossAtOrBelow20 ==
    (kind = "wr" /\ ~raised) =>
        \A t \in 2..N :
            (/\ Above(data["wr"][t - 1], WrLower)
             /\ (Below(data["wr"][t], WrLower) \/ Equals(data["wr"][t], WrLower)))
            => t \in IdxOf(switch_up)

(* C8 amended: every row whose previous wr is > 20 and whose wr is < 20 is in
   switch_up, and a row whose wr is exactly 20 is not. *)
C8_WrUpCrossBelow20 ==
    (kind = "wr" /\ ~raised) =>
        \A t \in 2..N :
            /\ (Above(data["wr"][t - 1], WrLower) /\ Below(data["wr"][t], WrLower))
                   => t \in IdxOf(switch_up)
            /\ Equals(data["wr"][t], WrLower) => t \notin IdxOf(switch_up)

(* C8 witness: wr falls from above 20 to below 20 and the row is in
   switch_up *)
C8_Witness ==
    /\ kind = "wr" /\ ~raised
    /\ \E t \in 2..N :
          /\ Above(data["wr"][t - 1], WrLower)
          /\ Below(data["wr"][t], WrLower)
          /\ t \in IdxOf(switch_up)

(* C9: for wr and Stochastic a row in the warm-up prefix or whose window has
   high == low has an undefined indicator value, and a row is in switch_up
   or switch_down only if the indicator value is defined on that row and on
   the row before; the first row is never a crossing. *)
C9_UndefinedNeverCrosses ==
    (kind \in {"wr", "Stochastic"} /\ ~raised) =>
        LET ind == IF kind = "wr" THEN data["wr"] ELSE data["%K"]
        IN  /\ \A t \in 1..N :
                  (t < params[1] \/ FlatWindow(t, params[1])) => IsNaN(ind[t])
            /\ \A e \in Events :
                  e > 1 /\ Finite(ind[e]) /\ Finite(ind[e - 1])

(* C9 witness: a crossing in a table that also has a zero-range window *)
C9_Witness ==
    /\ kind \in {"wr", "Stochastic"} /\ ~raised
    /\ Events # {}
    /\ \E t \in 1..N : FlatWindow(t, params[1])

(* C10: RSI on a non-decreasing price series longer than the window: RSI is
   NaN on the first row and 100 on every later row, and switch_up is empty. *)
C10_MonotoneRsiIs100 ==
    (kind = "RSI" /\ ~raised /\ NonDecreasing(close) /\ N > params[1]) =>
        /\ FIsNaN(data["RSI"][1])
        /\ \A t \in 2..N : RsiEquals(data["RSI"][t], FHundred)
        /\ switch_up = <<>>

(* C10 amended: on a strictly increasing series longer than the window RSI
   is NaN on the first row and 100 on every later row.  On a series that is
   only non-decreasing every RSI value is 100 or NaN: 100 on each row where
   the price rose, NaN (0/0) on every row up to the first rise.  In both
   cases neither switch_up nor switch_down has a row. *)
C10_MonotoneRsi ==
    (kind = "RSI" /\ ~raised /\ NonDecreasing(close) /\ N > params[1]) =>
        /\ FIsNaN(data["RSI"][1])
        /\ (Increasing(close) => \A t \in 2..N : RsiEquals(data["RSI"][t], FHundred))
        /\ \A t \in 2..N :
              /\ RsiEquals(data["RSI"][t], FHundred) \/ FIsNaN(data["RSI"][t])
              /\ close[t - 1] < close[t] => RsiEquals(data["RSI"][t], FHundred)
              /\ (\A i \in 2..t : close[i - 1] = close[i])
                    => FIsNaN(data["RSI"][t])
        /\ switch_up = <<>>
        /\ switch_down = <<>>

(* C10 witness: RSI built on a strictly increasing series longer than its
   window *)
C10_Witness ==
    /\ kind = "RSI" /\ ~raised
    /\ Increasing(close)
    /\ N > params[1]
    /\ N >= 3
    /\ RsiEquals(data["RSI"][N], FHundred)

=============================================================================
